---- MODULE Spec2Model ----
(***************************************************************************)
(* Model of the form submission route (backend/routes/forms/submit.py,     *)
(* SubmitForm.post and its background webhook task) and of the Discord     *)
(* helpers (backend/discord.py: make_request, format_message,              *)
(* send_submission_webhook, send_direct_message).                          *)
(*                                                                         *)
(* An optional value (None or a value) is a sequence of length 0 or 1.     *)
(***************************************************************************)
EXTENDS Integers, Sequences, FiniteSets, TLC

None == <<>>
Some(x) == <<x>>

(***************************************************************************)
(* Data                                                                    *)
(***************************************************************************)

\* FormFeatures values read by submit.py
Features == {"OPEN", "REQUIRES_LOGIN", "COLLECT_EMAIL", "DISABLE_ANTISPAM", "WEBHOOK_ENABLED"}

\* ids a question of the form, or a key of the submitted answers, can have
QuestionIds == {"q1", "q2"}

\* JSON null (Python None) as the value of a key that is present
Null == "null"

\* values of a submitted answer
AnswerValues == {"text", Null}

\* a question: `unittests` says whether "unittests" is a key of question.data
Questions == [id : QuestionIds, required : BOOLEAN, unittests : BOOLEAN]

\* form.questions: a list of questions in the order of the form; the id of a
\* question identifies it within its form
QuestionLists ==
    {qs \in UNION {[1..n -> Questions] : n \in 0..Cardinality(QuestionIds)} :
        \A i, j \in DOMAIN qs : qs[i].id = qs[j].id => i = j}

\* a string is a sequence of pieces of text: a brace, a name or any other text
\* without braces is one piece

\* form.name: a plain name, and names that hold the placeholder of a key
Names == {<<"Survey">>, <<"{", "user", "}">>, <<"{", "form_id", "}">>}

\* form.webhook.message: None or a template
Templates == {None,
              Some(<<"{", "user", "}", " sent ", "{", "form", "}">>),
              Some(<<"{", "form", "}", " ", "{", "time", "}">>),
              Some(<<"_USER_MENTION_", " sent {", "form_id", "}">>)}

\* form.webhook: None or the webhook configuration
Webhooks == {None, Some([url |-> "https://webhook_url", message |-> None])}

\* form.webhook of the forms made to notify with a message
NamedWebhooks == {Some([url |-> "https://webhook_url", message |-> m]) : m \in Templates}

\* forms that differ in their features and questions
FeatureForms == [id : {"form1"}, name : {<<"Survey">>}, features : SUBSET Features,
                 questions : QuestionLists, webhook : Webhooks]

\* forms without questions that differ in their name and webhook message
NamedForms == [id : {"form1"}, name : Names,
               features : {{"OPEN", "WEBHOOK_ENABLED", "DISABLE_ANTISPAM"},
                           {"OPEN", "WEBHOOK_ENABLED", "DISABLE_ANTISPAM",
                            "REQUIRES_LOGIN"}},
               questions : {<<>>}, webhook : NamedWebhooks]

\* documents of db.forms
Forms == FeatureForms \cup NamedForms

\* data["response"]: a dict from question ids to answers
Answers == UNION {[S -> AnswerValues] : S \in SUBSET QuestionIds}

\* an antispam block as a client can put it into the body
ClientAntispam == [ip_hash |-> "client", user_agent_hash |-> "client", captcha_pass |-> TRUE]

\* a user block as a client can put it into the body
ClientUser == {"id", "username"}

\* request.json(): the response dict, the captcha token and what else the
\* client put into the body (PartialSubmission ignores extra keys); a key the
\* body does not have is None
Bodies == [response : Answers, antispam : {None, Some(ClientAntispam)},
           user : {None, Some(ClientUser)},
           id : {None}, form_id : {None}, timestamp : {None}]

\* bodies that answer every question and in which the client put an id, a
\* form_id or a timestamp of its own
ForgedBodies == [response : {[q \in QuestionIds |-> "text"]}, antispam : {None},
                 user : {None},
                 id : {None, Some("client_id")}, form_id : {None, Some("client_form")},
                 timestamp : {None, Some("client_time")}]

\* request.user: the payload is the set of keys of the identity claims;
\* discord_mention is None for a user without that attribute (the
\* unauthenticated user)
Users == {[is_authenticated |-> FALSE, payload |-> {}, discord_mention |-> None],
          [is_authenticated |-> TRUE, payload |-> {"id", "username"},
           discord_mention |-> Some(<<"<@id>">>)],
          [is_authenticated |-> TRUE, payload |-> {"id", "username", "email"},
           discord_mention |-> Some(<<"<@id>">>)]}

\* what the hCaptcha call can end with: a transport failure, a non-2xx
\* status (raise_for_status), or a verdict
CaptchaReplies == {"transport_error", "http_error", "success_true", "success_false"}

\* return codes of a TestResult; 99 is the internal error code
ReturnCodes == {0, 1, 99}
InternalErrorCode == 99

TestResults == [passed : BOOLEAN, return_code : ReturnCodes]

\* a reply of the route that has not been produced yet
NoOutcome == [kind |-> "none", status |-> 0, error |-> "", fields |-> <<>>,
              test_results |-> <<>>, background |-> FALSE]

\* JSONResponse(content, status_code, background)
JSONResponse(status, error, fields, results, bg) ==
    [kind |-> "response", status |-> status, error |-> error, fields |-> fields,
     test_results |-> results, background |-> bg]

\* an exception leaving the handler
Raised(what) ==
    [kind |-> "exception", status |-> 0, error |-> what, fields |-> <<>>,
     test_results |-> <<>>, background |-> FALSE]

\* the response dict before it exists
NoResponse == [id |-> None, form_id |-> None, timestamp |-> None, response |-> <<>>,
               antispam |-> None, user |-> None]

VARIABLES
    lookup,            \* db.forms and the requested _id: "pending" before find_one,
                       \* then "missing" (no document), "closed" (a document
                       \* without OPEN) or "open"
    body,              \* the JSON body of the request
    user,              \* request.user
    pc,                \* the stage SubmitForm.post is at
    form,              \* local form: None or the Form
    response,          \* local response: the dict the FormResponse is built from
    response_obj,      \* local response_obj: None or the FormResponse
    unittest_results,  \* local unittest_results
    outcome,           \* what SubmitForm.post ended with
    responses,         \* db.responses: the inserted documents
    calls,             \* the external calls made so far, in order
    stages,            \* the stages of SubmitForm.post that have run, in order
    background,        \* the BackgroundTask: "none", "scheduled", "sent", "failed"
    hook,              \* local hook of the task: None or the message it built
    task_error         \* the exception the task ended with, "" for none

\* the state of one call of make_request
VARIABLES
    args,              \* the arguments: method, url, json, headers
    mr_pc,             \* where make_request is at
    request,           \* local request: None or the coroutine client.request(...)
    resp,              \* local resp: None or the latest response
    received,          \* the responses received so far, in order
    sent,              \* the requests the server got, in order
    slept,             \* the arguments of asyncio.sleep, in order
    result             \* what make_request ended with

post_vars == <<lookup, body, user, pc, form, response, response_obj, unittest_results,
               outcome, responses, calls, stages, background, hook, task_error>>

task_vars == <<hook, task_error>>

mr_vars == <<args, mr_pc, request, resp, received, sent, slept, result>>

\* the state of one call of send_submission_webhook or send_direct_message of
\* discord.py
VARIABLES
    note_args,         \* the function called and its arguments form, response, user
    note_pc,           \* where the function is at
    channel,           \* local channel of send_direct_message: None or the id
    note_hook,         \* local hook of send_submission_webhook: None or the hook
    formatted,         \* None or what format_message returned
    note_calls,        \* the calls of make_request that have ended, in order: the
                       \* arguments, the requests sent and the result of each
    note_result        \* what the function ended with

note_vars == <<note_args, note_pc, channel, note_hook, formatted, note_calls, note_result>>

vars == <<post_vars, mr_vars, note_vars>>

(***************************************************************************)
(* SubmitForm.post                                                         *)
(***************************************************************************)

\* FindOne with the filter on "features" left out
FindOneAnyFeatures(doc) == doc

\* db.forms.find_one({"_id": form_id, "features": "OPEN"}) where doc is the
\* document with that _id, if any
FindOne(doc) ==
    IF doc # None /\ "OPEN" \in doc[1].features THEN doc ELSE None

\* ResponseShell without the reset of data["timestamp"]
ResponseShellKeepTimestamp(data, f) ==
    [data EXCEPT !.id = Some("uuid4"), !.form_id = Some(f.id)]

\* data["timestamp"] = None; response = data.copy(); response["id"] = uuid4();
\* response["form_id"] = form.id
ResponseShell(data, f) ==
    LET copy == [data EXCEPT !.timestamp = None]
    IN [copy EXCEPT !.id = Some("uuid4"), !.form_id = Some(f.id)]

\* the 404 reply of the else branch
NotFound == JSONResponse(404, "Open form not found", <<>>, <<>>, FALSE)

Lookup ==
    /\ pc = "lookup"
    /\ UNCHANGED <<mr_vars, task_vars, note_vars>>
    /\ stages' = Append(stages, "lookup")
    /\ \E doc \in {None} \cup {Some(f) : f \in Forms} :
        LET found == FindOne(doc) IN
        /\ lookup' = IF doc = None THEN "missing"
                      ELSE IF "OPEN" \in doc[1].features THEN "open" ELSE "closed"
        /\ IF found # None
           THEN /\ form' = found
                /\ response' = ResponseShell(body, found[1])
                /\ pc' = "antispam"
                /\ outcome' = outcome
           ELSE /\ outcome' = NotFound
                /\ pc' = "done"
                /\ UNCHANGED <<form, response>>
    /\ calls' = Append(calls, "find_one")
    /\ UNCHANGED <<body, user, response_obj, unittest_results, responses, background>>

\* FormFeatures.DISABLE_ANTISPAM.value not in form.features
AntispamEnabled(f) == "DISABLE_ANTISPAM" \notin f.features

\* the antispam block built from the hashes and the verdict of hCaptcha
ServerAntispam(reply) ==
    [ip_hash |-> "md5(host)", user_agent_hash |-> "md5(user_agent)",
     captcha_pass |-> (reply = "success_true")]

\* AntiSpam with the verdict enforced: a failed captcha is answered with 400
AntiSpamEnforced ==
    /\ pc = "antispam"
    /\ UNCHANGED <<mr_vars, task_vars, note_vars>>
    /\ stages' = Append(stages, "antispam")
    /\ IF AntispamEnabled(form[1])
       THEN \E has_user_agent \in BOOLEAN, reply \in CaptchaReplies :
            IF ~has_user_agent
            THEN /\ outcome' = Raised("KeyError")
                 /\ pc' = "done"
                 /\ UNCHANGED <<response, calls>>
            ELSE /\ calls' = Append(calls, "captcha")
                 /\ IF reply \in {"transport_error", "http_error"}
                    THEN /\ outcome' = Raised(reply)
                         /\ pc' = "done"
                         /\ UNCHANGED response
                    ELSE /\ response' = [response EXCEPT
                                            !.antispam = Some(ServerAntispam(reply))]
                         /\ IF reply = "success_false"
                            THEN /\ outcome' = JSONResponse(400, "captcha_failed", <<>>,
                                                            <<>>, FALSE)
                                 /\ pc' = "done"
                            ELSE /\ pc' = "auth"
                                 /\ UNCHANGED outcome
       ELSE /\ pc' = "auth"
            /\ UNCHANGED <<response, calls, outcome>>
    /\ UNCHANGED <<lookup, body, user, form, response_obj, unittest_results, responses,
                   background>>

\* lines 72-97: hash the client host and the User-Agent header (a KeyError
\* when the request has none), post to hCaptcha, raise_for_status, and store
\* the block under response["antispam"]
AntiSpam ==
    /\ pc = "antispam"
    /\ UNCHANGED <<mr_vars, task_vars, note_vars>>
    /\ stages' = Append(stages, "antispam")
    /\ IF AntispamEnabled(form[1])
       THEN \E has_user_agent \in BOOLEAN, reply \in CaptchaReplies :
            IF ~has_user_agent
            THEN /\ outcome' = Raised("KeyError")
                 /\ pc' = "done"
                 /\ UNCHANGED <<response, calls>>
            ELSE /\ calls' = Append(calls, "captcha")
                 /\ IF reply \in {"transport_error", "http_error"}
                    THEN /\ outcome' = Raised(reply)
                         /\ pc' = "done"
                         /\ UNCHANGED response
                    ELSE /\ response' = [response EXCEPT
                                            !.antispam = Some(ServerAntispam(reply))]
                         /\ pc' = "auth"
                         /\ UNCHANGED outcome
       ELSE /\ pc' = "auth"
            /\ UNCHANGED <<response, calls, outcome>>
    /\ UNCHANGED <<lookup, body, user, form, response_obj, unittest_results, responses,
                   background>>

\* a 400 reply with an error name
BadRequest(error) == JSONResponse(400, error, <<>>, <<>>, FALSE)

\* AuthGating with the email asked of every login form, COLLECT_EMAIL or not
AuthGatingEmailAlways(f, u, dict) ==
    IF "REQUIRES_LOGIN" \in f.features
    THEN IF u.is_authenticated
         THEN [reply |-> IF "email" \notin u.payload
                         THEN BadRequest("email_required")
                         ELSE NoOutcome,
               response |-> [dict EXCEPT !.user = Some(u.payload)]]
         ELSE [reply |-> BadRequest("missing_discord_data"), response |-> dict]
    ELSE [reply |-> NoOutcome, response |-> dict]

\* AuthGating with the request that is not authenticated let through to the
\* later stages
AuthGatingDeferred(f, u, dict) ==
    IF "REQUIRES_LOGIN" \in f.features /\ u.is_authenticated
    THEN [reply |-> IF "COLLECT_EMAIL" \in f.features /\ "email" \notin u.payload
                    THEN BadRequest("email_required")
                    ELSE NoOutcome,
          response |-> [dict EXCEPT !.user = Some(u.payload)]]
    ELSE [reply |-> NoOutcome, response |-> dict]

\* lines 99-113: the reply of the auth stage (NoOutcome when it passes) and the
\* response dict after it
AuthGating(f, u, dict) ==
    IF "REQUIRES_LOGIN" \in f.features
    THEN IF u.is_authenticated
         THEN [reply |-> IF "COLLECT_EMAIL" \in f.features /\ "email" \notin u.payload
                         THEN BadRequest("email_required")
                         ELSE NoOutcome,
               response |-> [dict EXCEPT !.user = Some(u.payload)]]
         ELSE [reply |-> BadRequest("missing_discord_data"), response |-> dict]
    ELSE [reply |-> NoOutcome, response |-> dict]

AuthGate ==
    /\ pc = "auth"
    /\ UNCHANGED <<mr_vars, task_vars, note_vars>>
    /\ stages' = Append(stages, "auth")
    /\ LET g == AuthGating(form[1], user, response) IN
       /\ response' = g.response
       /\ outcome' = g.reply
       /\ pc' = IF g.reply = NoOutcome THEN "fields" ELSE "done"
    /\ UNCHANGED <<lookup, body, user, form, response_obj, unittest_results, responses,
                   calls, background>>

\* CheckFields with a missing id put in front of the list instead of at its end
RECURSIVE CheckFieldsPrepend(_, _, _)
CheckFieldsPrepend(questions, answers, missing_fields) ==
    IF questions = <<>>
    THEN [response |-> answers, missing_fields |-> missing_fields]
    ELSE LET question == Head(questions) IN
         IF question.id \notin DOMAIN answers
         THEN IF ~question.required
              THEN CheckFieldsPrepend(Tail(questions), answers @@ (question.id :> Null),
                                      missing_fields)
              ELSE CheckFieldsPrepend(Tail(questions), answers,
                                      <<question.id>> \o missing_fields)
         ELSE CheckFieldsPrepend(Tail(questions), answers, missing_fields)

\* lines 115-121: the loop over form.questions, from the questions still to
\* visit, response["response"] and missing_fields so far
RECURSIVE CheckFields(_, _, _)
CheckFields(questions, answers, missing_fields) ==
    IF questions = <<>>
    THEN [response |-> answers, missing_fields |-> missing_fields]
    ELSE LET question == Head(questions) IN
         IF question.id \notin DOMAIN answers
         THEN IF ~question.required
              THEN CheckFields(Tail(questions), answers @@ (question.id :> Null),
                               missing_fields)
              ELSE CheckFields(Tail(questions), answers,
                               Append(missing_fields, question.id))
         ELSE CheckFields(Tail(questions), answers, missing_fields)

\* lines 115-127
FieldCompleteness ==
    /\ pc = "fields"
    /\ UNCHANGED <<mr_vars, task_vars, note_vars>>
    /\ stages' = Append(stages, "fields")
    /\ LET r == CheckFields(form[1].questions, response.response, <<>>) IN
       /\ response' = [response EXCEPT !.response = r.response]
       /\ IF r.missing_fields # <<>>
          THEN /\ outcome' = JSONResponse(400, "missing_fields", r.missing_fields,
                                          <<>>, FALSE)
               /\ pc' = "done"
          ELSE /\ pc' = "validate"
               /\ UNCHANGED outcome
    /\ UNCHANGED <<lookup, body, user, form, response_obj, unittest_results, responses,
                   calls, background>>

\* FormResponse(**response): the typed response; timestamp is assigned when
\* it is None, the optional user and antispam are kept as given
FormResponse(dict) ==
    IF dict.timestamp = None THEN [dict EXCEPT !.timestamp = Some("now")] ELSE dict

\* lines 129-132: a ValidationError is answered with 422
Validate ==
    /\ pc = "validate"
    /\ UNCHANGED <<mr_vars, task_vars, note_vars>>
    /\ stages' = Append(stages, "validate")
    /\ \E valid \in BOOLEAN :
       IF valid
       THEN /\ response_obj' = Some(FormResponse(response))
            /\ pc' = "grade"
            /\ UNCHANGED outcome
       ELSE /\ outcome' = JSONResponse(422, "validation_error", <<>>, <<>>, FALSE)
            /\ pc' = "done"
            /\ UNCHANGED response_obj
    /\ UNCHANGED <<lookup, body, user, form, response, unittest_results, responses,
                   calls, background>>

\* any("unittests" in question.data for question in form.questions)
HasUnittests(f) == \E i \in DOMAIN f.questions : f.questions[i].unittests

\* what execute_unittest can return for a form: one TestResult for each
\* question with unit tests
UnittestResults(f) ==
    [1..Cardinality({i \in DOMAIN f.questions : f.questions[i].unittests}) -> TestResults]

\* all(test.passed for test in unittest_results)
WasSuccessful(results) == \A i \in DOMAIN results : results[i].passed

\* [test._asdict() for test in unittest_results if not test.passed]
FailedTests(results) == SelectSeq(results, LAMBDA test : ~test.passed)

\* FailedTestsReply with every result reported, the passing ones too
FailedTestsReplyAll(results) ==
    JSONResponse(IF \E i \in DOMAIN results : results[i].return_code = InternalErrorCode
                 THEN 500 ELSE 403,
                 "failed_tests", <<>>, results, FALSE)

\* lines 141-151: the reply to a submission whose tests did not all pass
FailedTestsReply(results) ==
    JSONResponse(IF \E i \in DOMAIN results : results[i].return_code = InternalErrorCode
                 THEN 500 ELSE 403,
                 "failed_tests", <<>>, FailedTests(results), FALSE)

\* lines 134-151: execute_unittest runs when a question has unit tests; it
\* returns its results or raises
Grade ==
    /\ pc = "grade"
    /\ UNCHANGED <<mr_vars, task_vars, note_vars>>
    /\ stages' = Append(stages, "grade")
    /\ IF HasUnittests(form[1])
       THEN /\ calls' = Append(calls, "execute_unittest")
            /\ \/ /\ outcome' = Raised("execute_unittest")
                  /\ pc' = "done"
                  /\ UNCHANGED unittest_results
               \/ \E results \in UnittestResults(form[1]) :
                  /\ unittest_results' = results
                  /\ IF WasSuccessful(results)
                     THEN /\ pc' = "insert"
                          /\ UNCHANGED outcome
                     ELSE /\ outcome' = FailedTestsReply(results)
                          /\ pc' = "done"
       ELSE /\ pc' = "insert"
            /\ UNCHANGED <<calls, unittest_results, outcome>>
    /\ UNCHANGED <<lookup, body, user, form, response, response_obj, responses,
                   background>>

\* Persist with the insert left out
PersistNothing ==
    /\ pc = "insert"
    /\ UNCHANGED <<mr_vars, task_vars, note_vars>>
    /\ stages' = Append(stages, "insert")
    /\ pc' = "respond"
    /\ UNCHANGED <<lookup, body, user, form, response, response_obj, unittest_results,
                   outcome, responses, calls, background>>

\* lines 153-155: db.responses.insert_one(response_obj.dict(by_alias=True))
Persist ==
    /\ pc = "insert"
    /\ UNCHANGED <<mr_vars, task_vars, note_vars>>
    /\ stages' = Append(stages, "insert")
    /\ responses' = Append(responses, response_obj[1])
    /\ calls' = Append(calls, "insert_one")
    /\ pc' = "respond"
    /\ UNCHANGED <<lookup, body, user, form, response, response_obj, unittest_results,
                   outcome, background>>

\* SendWebhook without the test of the feature
SendWebhookAlways(f) == TRUE

\* lines 157-164: whether a BackgroundTask is created
SendWebhook(f) == "WEBHOOK_ENABLED" \in f.features

\* lines 157-169: the 200 reply, with the BackgroundTask attached to it
Respond ==
    /\ pc = "respond"
    /\ UNCHANGED <<mr_vars, task_vars, note_vars>>
    /\ stages' = Append(stages, "respond")
    /\ outcome' = JSONResponse(200, "", <<>>, <<>>, SendWebhook(form[1]))
    /\ background' = IF SendWebhook(form[1]) THEN "scheduled" ELSE "none"
    /\ pc' = "done"
    /\ UNCHANGED <<lookup, body, user, form, response, response_obj, unittest_results,
                   responses, calls>>

\* str.replace(old, new): every occurrence of old, from the left, none
\* overlapping another
RECURSIVE Replace(_, _, _)
Replace(str, old, new) ==
    IF Len(str) < Len(old) THEN str
    ELSE IF SubSeq(str, 1, Len(old)) = old
         THEN new \o Replace(SubSeq(str, Len(old) + 1, Len(str)), old, new)
         ELSE <<Head(str)>> \o Replace(Tail(str), old, new)

\* f"{{{key}}}"
Placeholder(key) == <<"{", key, "}">>

\* try: mention = request_user.discord_mention; except AttributeError: "User"
Mention(u) == IF u.discord_mention = None THEN <<"User">> ELSE u.discord_mention[1]

\* the dict of the context variables, as the list of its items in the order
\* of insertion
CtxVariables(mention, f, r) ==
    <<[key |-> "user", val |-> mention],
      [key |-> "response_id", val |-> <<r.id[1]>>],
      [key |-> "form", val |-> f.name],
      [key |-> "form_id", val |-> <<f.id>>],
      [key |-> "time", val |-> <<r.timestamp[1]>>]>>

\* the backquote character as a piece of text
Backquote == "(backquote)"

\* f"{mention} submitted a response to (backquote){form.name}(backquote)."
Description(mention, f) ==
    mention \o <<" submitted a response to ", Backquote>> \o f.name \o <<Backquote, ".">>

\* for key in ctx: message = message.replace(f"{{{key}}}", str(ctx[key]))
RECURSIVE ReplaceKeys(_, _)
ReplaceKeys(ctx, message) ==
    IF ctx = <<>> THEN message
    ELSE ReplaceKeys(Tail(ctx), Replace(message, Placeholder(Head(ctx).key), Head(ctx).val))

\* lines 187-233 of submit.py: the hook built for a form with a webhook
SubmitFormHook(f, r, u) ==
    LET mention == Mention(u)
        message == f.webhook[1].message
    IN [description |-> Description(mention, f),
        author |-> IF u.is_authenticated THEN Some("display_name") ELSE None,
        username |-> IF f.name # <<>> THEN f.name ELSE <<"Python Discord Forms">>,
        content |-> IF message # None /\ message[1] # <<>>
                    THEN Some(Replace(ReplaceKeys(CtxVariables(mention, f, r), message[1]),
                                      <<"_USER_MENTION_">>, mention))
                    ELSE None]

\* RunBackground awaited by the handler: an error of the task replaces the
\* reply
RunBackgroundInline ==
    /\ background = "scheduled"
    /\ UNCHANGED <<mr_vars, note_vars>>
    /\ outcome.kind = "response"
    /\ outcome.background
    /\ IF form[1].webhook = None
       THEN /\ background' = "failed"
            /\ task_error' = "ValueError"
            /\ outcome' = Raised("ValueError")
            /\ UNCHANGED <<calls, hook>>
       ELSE /\ hook' = Some(SubmitFormHook(form[1], response_obj[1], user))
            /\ calls' = Append(calls, "webhook_post")
            /\ \E ok \in BOOLEAN :
                /\ background' = IF ok THEN "sent" ELSE "failed"
                /\ task_error' = IF ok THEN "" ELSE "HTTPError"
                /\ outcome' = IF ok THEN outcome ELSE Raised("HTTPError")
    /\ UNCHANGED <<lookup, body, user, pc, form, response, response_obj,
                   unittest_results, responses, stages>>

\* RunBackground with the test of form.webhook after the embed is built
RunBackgroundLateCheck ==
    /\ background = "scheduled"
    /\ UNCHANGED <<mr_vars, note_vars>>
    /\ outcome.kind = "response"
    /\ outcome.background
    /\ IF form[1].webhook = None
       THEN /\ hook' = Some([description |-> Description(Mention(user), form[1]),
                             author |-> None, username |-> form[1].name,
                             content |-> None])
            /\ background' = "failed"
            /\ task_error' = "ValueError"
            /\ UNCHANGED calls
       ELSE /\ hook' = Some(SubmitFormHook(form[1], response_obj[1], user))
            /\ calls' = Append(calls, "webhook_post")
            /\ \E ok \in BOOLEAN :
                /\ background' = IF ok THEN "sent" ELSE "failed"
                /\ task_error' = IF ok THEN "" ELSE "HTTPError"
    /\ UNCHANGED <<lookup, body, user, pc, form, response, response_obj,
                   unittest_results, outcome, responses, stages>>

\* SubmitForm.send_submission_webhook, run by the framework as the background
\* task of the reply once the reply is sent: a ValueError without a webhook,
\* else the hook is built and posted once to the webhook url, and a transport
\* failure or raise_for_status ends the task with an error
RunBackground ==
    /\ background = "scheduled"
    /\ UNCHANGED <<mr_vars, note_vars>>
    /\ outcome.kind = "response"
    /\ outcome.background
    /\ IF form[1].webhook = None
       THEN /\ background' = "failed"
            /\ task_error' = "ValueError"
            /\ UNCHANGED <<calls, hook>>
       ELSE /\ hook' = Some(SubmitFormHook(form[1], response_obj[1], user))
            /\ calls' = Append(calls, "webhook_post")
            /\ \E ok \in BOOLEAN :
                /\ background' = IF ok THEN "sent" ELSE "failed"
                /\ task_error' = IF ok THEN "" ELSE "HTTPError"
    /\ UNCHANGED <<lookup, body, user, pc, form, response, response_obj,
                   unittest_results, outcome, responses, stages>>

(***************************************************************************)
(* make_request                                                            *)
(***************************************************************************)

\* a url is a tuple: <<base, path>> for a path joined to a base, <<url>> for
\* an absolute url
API_BASE_URL == "https://discord.com/api/v8/"

DISCORD_HEADERS == ("Authorization" :> "Bot DISCORD_BOT_TOKEN")

\* urls make_request is called with that are absolute (a webhook url)
AbsoluteUrls == {"https://webhook_url"}

\* the most 429 responses the server gives to one call
MaxRateLimited == 2

\* status codes the server answers with
Statuses == {200, 204, 400, 403, 404, 429, 500}

\* the status of a rate limited request
RateLimited == 429

\* seconds in the X-Ratelimit-Reset-After header of a 429 response
RetryAfters == {1, 2}

\* httpx.Response: the status, the body, and the reset-after header (0 when
\* the response is no 429)
ServerResponses ==
    {[status_code |-> s, text |-> t, retry_after |-> 0] :
        s \in Statuses \ {RateLimited}, t \in {"{}", "{\"id\": 1}"}}
    \cup {[status_code |-> RateLimited, text |-> "{}", retry_after |-> r] :
            r \in RetryAfters}

\* the arguments make_request is called with
Args == [method : {"GET", "POST", "PUT"},
         url : {"users/@me", "users/@me/channels"} \cup AbsoluteUrls,
         json : {None, Some("payload")},
         headers : {None, Some("Authorization" :> "Bearer token"),
                    Some("X-Audit-Log-Reason" :> "forms")}]

\* parse.urljoin(API_BASE_URL, url)
UrlJoin(url) == IF url \in AbsoluteUrls THEN <<url>> ELSE <<API_BASE_URL, url>>

\* MergeHeaders with the defaults used only when the caller gives no headers
MergeHeadersCallerOnly(headers) ==
    IF headers = None THEN DISCORD_HEADERS ELSE headers[1]

\* _headers = DISCORD_HEADERS.copy(); _headers.update(headers if headers else {})
MergeHeaders(headers) ==
    IF headers = None THEN DISCORD_HEADERS ELSE headers[1] @@ DISCORD_HEADERS

\* client.request(method, url, json=json, headers=_headers): a coroutine,
\* which sends the request when it is awaited; json is passed only when it is
\* not None
ClientRequest(a) ==
    [call |-> [method |-> a.method, url |-> UrlJoin(a.url), json |-> a.json,
               headers |-> MergeHeaders(a.headers)],
     awaited |-> FALSE]

\* a coroutine object runs once: awaiting it again raises RuntimeError
Awaitable(coroutine) == ~coroutine.awaited

NoResult == [kind |-> "none", error |-> "", response |-> None]

\* RaiseForStatus with only the 5xx statuses raised
RaiseForStatusServerOnly(r) ==
    IF r.status_code >= 500
    THEN [kind |-> "raised", error |-> "HTTPStatusError", response |-> Some(r)]
    ELSE [kind |-> "returned", error |-> "", response |-> Some(r)]

\* resp.raise_for_status(); return resp: HTTPStatusError carries the response
RaiseForStatus(r) ==
    IF r.status_code \in 200..299
    THEN [kind |-> "returned", error |-> "", response |-> Some(r)]
    ELSE [kind |-> "raised", error |-> "HTTPStatusError", response |-> Some(r)]

\* lines 25-33
CreateRequest ==
    /\ mr_pc = "create"
    /\ request' = Some(ClientRequest(args))
    /\ mr_pc' = "await"
    /\ UNCHANGED <<args, resp, received, sent, slept, result>>
    /\ UNCHANGED <<post_vars, note_vars>>

\* lines 34 and 40: resp = await request
AwaitRequest ==
    /\ mr_pc = "await"
    /\ IF Awaitable(request[1])
       THEN /\ sent' = Append(sent, request[1].call)
            /\ request' = Some([request[1] EXCEPT !.awaited = TRUE])
            /\ \E r \in ServerResponses :
                /\ r.status_code = RateLimited =>
                      Cardinality({i \in DOMAIN received :
                                     received[i].status_code = RateLimited})
                        < MaxRateLimited
                /\ resp' = Some(r)
                /\ received' = Append(received, r)
            /\ mr_pc' = "check"
            /\ UNCHANGED result
       ELSE /\ result' = [kind |-> "raised", error |-> "RuntimeError", response |-> None]
            /\ mr_pc' = "done"
            /\ UNCHANGED <<request, resp, received, sent>>
    /\ UNCHANGED <<args, slept>>
    /\ UNCHANGED <<post_vars, note_vars>>

\* lines 37-39: the body of the while loop up to the await
RateLimitSleep ==
    /\ mr_pc = "check"
    /\ resp[1].status_code = RateLimited
    /\ slept' = Append(slept, resp[1].retry_after)
    /\ mr_pc' = "await"
    /\ UNCHANGED <<args, request, resp, received, sent, result>>
    /\ UNCHANGED <<post_vars, note_vars>>

\* lines 42-43
Finish ==
    /\ mr_pc = "check"
    /\ resp[1].status_code # RateLimited
    /\ result' = RaiseForStatus(resp[1])
    /\ mr_pc' = "done"
    /\ UNCHANGED <<args, request, resp, received, sent, slept>>
    /\ UNCHANGED <<post_vars, note_vars>>

\* make_request is not being called
MRIdle ==
    /\ args = [method |-> "GET", url |-> "users/@me", json |-> None, headers |-> None]
    /\ mr_pc = "idle"
    /\ request = None
    /\ resp = None
    /\ received = <<>>
    /\ sent = <<>>
    /\ slept = <<>>
    /\ result = NoResult

\* SubmitForm.post is not being called
PostIdle ==
    /\ lookup = "pending"
    /\ body = [response |-> <<>>, antispam |-> None, user |-> None, id |-> None,
               form_id |-> None, timestamp |-> None]
    /\ user = [is_authenticated |-> FALSE, payload |-> {}, discord_mention |-> None]
    /\ pc = "idle"
    /\ form = None
    /\ response = NoResponse
    /\ response_obj = None
    /\ unittest_results = <<>>
    /\ outcome = NoOutcome
    /\ responses = <<>>
    /\ calls = <<>>
    /\ stages = <<>>
    /\ background = "none"
    /\ hook = None
    /\ task_error = ""

\* forms as the functions of discord.py read them
NotifyForms == [id : {"form1"}, name : Names, webhook : {None} \cup NamedWebhooks,
                dm_message : {<<"Thanks ", "{", "user", "}">>,
                              <<"{", "form", "}", " at ", "{", "time", "}">>}]

\* the arguments of a call of send_submission_webhook ("webhook") or
\* send_direct_message ("dm", for a user with an id in the payload)
NoteArgs ==
    {a \in [fn : {"webhook", "dm"}, form : NotifyForms,
             response : {[id |-> Some("uuid4"), timestamp |-> Some("now")]},
             user : Users] :
        a.fn = "dm" => "id" \in a.user.payload}

\* neither function of discord.py is being called
NoteIdle ==
    /\ note_args = [fn |-> "none"]
    /\ note_pc = "idle"
    /\ channel = None
    /\ note_hook = None
    /\ formatted = None
    /\ note_calls = <<>>
    /\ note_result = NoResult

InitMR ==
    /\ PostIdle
    /\ NoteIdle
    /\ args \in Args
    /\ mr_pc = "create"
    /\ request = None
    /\ resp = None
    /\ received = <<>>
    /\ sent = <<>>
    /\ slept = <<>>
    /\ result = NoResult

NextMR ==
    \/ CreateRequest
    \/ AwaitRequest
    \/ RateLimitSleep
    \/ Finish

SpecMR == InitMR /\ [][NextMR]_vars

\* build_ctx_variables: the mention with its fallback, and the dict
BuildCtxVariables(f, r, u) == CtxVariables(Mention(u), f, r)

\* format_message: for key, val in ctx.items(): message.replace(...)
FormatMessage(ctx, message) == ReplaceKeys(ctx, message)

\* ctx.get(key): None when the dict has no such key
CtxGet(ctx, key) ==
    IF \E i \in DOMAIN ctx : ctx[i].key = key
    THEN Some(ctx[CHOOSE i \in DOMAIN ctx : ctx[i].key = key].val)
    ELSE None

\* an optional string put into an f-string: None is formatted as "None"
FString(val) == IF val = None THEN <<"None">> ELSE val[1]

\* lines 113-145 of discord.py: the hook built for a form with a webhook, and
\* what format_message returned for its content
DiscordHook(f, r, u) ==
    LET ctx == BuildCtxVariables(f, r, u)
        mention == CtxGet(ctx, "mention")
        message == f.webhook[1].message
        content == IF message # None /\ message[1] # <<>>
                   THEN Some(FormatMessage(ctx, message[1]))
                   ELSE None
    IN [description |-> FString(mention) \o <<" submitted a response to ", Backquote>>
                          \o f.name \o <<Backquote, ".">>,
        author |-> IF u.is_authenticated THEN Some("display_name") ELSE None,
        username |-> IF f.name # <<>> THEN f.name ELSE <<"Python Discord Forms">>,
        content |-> content]

\* make_request(method, url, json) is called: the state of a new call
CallMakeRequest(method, url, json) ==
    /\ args' = [method |-> method, url |-> url, json |-> json, headers |-> None]
    /\ mr_pc' = "create"
    /\ request' = None
    /\ resp' = None
    /\ received' = <<>>
    /\ sent' = <<>>
    /\ slept' = <<>>
    /\ result' = NoResult

\* the call of make_request has ended and is put on record
CallEnded ==
    /\ mr_pc = "done"
    /\ note_calls' = Append(note_calls, [args |-> args, sent |-> sent, result |-> result])

\* Narrow with every HTTPStatusError caught, whatever its status
NarrowAny(res, code) ==
    IF res.kind = "returned" THEN "ok"
    ELSE IF res.error = "HTTPStatusError" THEN "return"
    ELSE "raise"

\* try: await make_request(...) except httpx.HTTPStatusError as e:
\* if e.response.status_code == code: return; raise e
Narrow(res, code) ==
    IF res.kind = "returned" THEN "ok"
    ELSE IF res.error = "HTTPStatusError" /\ res.response[1].status_code = code
         THEN "return"
    ELSE "raise"

\* the result of a function that returned None
ReturnedNone == [kind |-> "returned", error |-> "", response |-> None]

\* response.json().get("id")
JsonId(text) == IF text = "{}" THEN None ELSE Some(1)

\* f"channels/{channel}/messages"
MessagesUrl(id) == <<"channels/", id, "/messages">>

\* discord.send_submission_webhook up to its await: lines 110-148
SendSubmissionWebhook ==
    /\ note_pc = "start"
    /\ note_args.fn = "webhook"
    /\ IF note_args.form.webhook = None
       THEN /\ note_result' = [kind |-> "raised", error |-> "ValueError", response |-> None]
            /\ note_pc' = "done"
            /\ UNCHANGED <<note_hook, formatted, mr_vars>>
       ELSE LET h == DiscordHook(note_args.form, note_args.response, note_args.user) IN
            /\ note_hook' = Some(h)
            /\ formatted' = h.content
            /\ CallMakeRequest("POST", note_args.form.webhook[1].url, Some(h))
            /\ note_pc' = "webhook_wait"
            /\ UNCHANGED note_result
    /\ UNCHANGED <<note_args, channel, note_calls>>
    /\ UNCHANGED post_vars

\* line 148: make_request has returned or raised, and so does the function
WebhookReturn ==
    /\ note_pc = "webhook_wait"
    /\ CallEnded
    /\ note_result' = IF result.kind = "returned" THEN ReturnedNone ELSE result
    /\ note_pc' = "done"
    /\ UNCHANGED <<note_args, channel, note_hook, formatted>>
    /\ UNCHANGED <<post_vars, mr_vars>>

\* send_direct_message calls get_direct_message_channel, which calls
\* make_request: lines 179 and 166-167
GetDirectMessageChannel ==
    /\ note_pc = "start"
    /\ note_args.fn = "dm"
    /\ CallMakeRequest("POST", "users/@me/channels", Some([recipient_id |-> "id"]))
    /\ note_pc' = "channel_wait"
    /\ UNCHANGED <<note_args, channel, note_hook, formatted, note_calls, note_result>>
    /\ UNCHANGED post_vars

\* lines 167-174 and 179-187: get_direct_message_channel returns the id, or
\* None after a 400, or raises; without a channel send_direct_message
\* returns, with one it formats the message and calls make_request
ChannelReturn ==
    /\ note_pc = "channel_wait"
    /\ CallEnded
    /\ LET how == Narrow(result, 400)
           id == IF how = "ok" THEN JsonId(result.response[1].text) ELSE None
       IN /\ channel' = id
          /\ IF how = "raise"
             THEN /\ note_result' = result
                  /\ note_pc' = "done"
                  /\ UNCHANGED <<formatted, mr_vars>>
             ELSE IF id = None
             THEN /\ note_result' = ReturnedNone
                  /\ note_pc' = "done"
                  /\ UNCHANGED <<formatted, mr_vars>>
             ELSE LET message ==
                          FormatMessage(BuildCtxVariables(note_args.form,
                                                          note_args.response,
                                                          note_args.user),
                                        note_args.form.dm_message)
                  IN /\ formatted' = Some(message)
                     /\ CallMakeRequest("POST", MessagesUrl(id[1]),
                                        Some([content |-> message]))
                     /\ note_pc' = "message_wait"
                     /\ UNCHANGED note_result
    /\ UNCHANGED <<note_args, note_hook>>
    /\ UNCHANGED post_vars

\* lines 186-192: the post of the message has returned or raised; a 403 is
\* caught
MessageReturn ==
    /\ note_pc = "message_wait"
    /\ CallEnded
    /\ note_result' = IF Narrow(result, 403) = "raise" THEN result ELSE ReturnedNone
    /\ note_pc' = "done"
    /\ UNCHANGED <<note_args, channel, note_hook, formatted>>
    /\ UNCHANGED <<post_vars, mr_vars>>

InitNotify ==
    /\ PostIdle
    /\ MRIdle
    /\ note_args \in NoteArgs
    /\ note_pc = "start"
    /\ channel = None
    /\ note_hook = None
    /\ formatted = None
    /\ note_calls = <<>>
    /\ note_result = NoResult

NextNotify ==
    \/ SendSubmissionWebhook
    \/ WebhookReturn
    \/ GetDirectMessageChannel
    \/ ChannelReturn
    \/ MessageReturn
    \/ NextMR

SpecNotify == InitNotify /\ [][NextNotify]_vars

Init ==
    /\ lookup = "pending"
    /\ body \in Bodies
    /\ user \in Users
    /\ pc = "lookup"
    /\ form = None
    /\ response = NoResponse
    /\ response_obj = None
    /\ unittest_results = <<>>
    /\ outcome = NoOutcome
    /\ responses = <<>>
    /\ calls = <<>>
    /\ stages = <<>>
    /\ background = "none"
    /\ hook = None
    /\ task_error = ""
    /\ MRIdle
    /\ NoteIdle

Next ==
    \/ Lookup
    \/ AntiSpam
    \/ AuthGate
    \/ FieldCompleteness
    \/ Validate
    \/ Grade
    \/ Persist
    \/ Respond
    \/ RunBackground

Spec == Init /\ [][Next]_vars

\* bodies with the answers alone, as the submission page sends them
PlainBodies == {b \in Bodies : b.antispam = None /\ b.user = None}

\* SubmitForm.post called with a body of the submission page
InitPlain ==
    /\ lookup = "pending"
    /\ body \in PlainBodies
    /\ user \in Users
    /\ pc = "lookup"
    /\ form = None
    /\ response = NoResponse
    /\ response_obj = None
    /\ unittest_results = <<>>
    /\ outcome = NoOutcome
    /\ responses = <<>>
    /\ calls = <<>>
    /\ stages = <<>>
    /\ background = "none"
    /\ hook = None
    /\ task_error = ""
    /\ MRIdle
    /\ NoteIdle

SpecPlain == InitPlain /\ [][Next]_vars

\* SubmitForm.post called with a body that holds keys of the response shell
InitShell ==
    /\ lookup = "pending"
    /\ body \in ForgedBodies
    /\ user \in Users
    /\ pc = "lookup"
    /\ form = None
    /\ response = NoResponse
    /\ response_obj = None
    /\ unittest_results = <<>>
    /\ outcome = NoOutcome
    /\ responses = <<>>
    /\ calls = <<>>
    /\ stages = <<>>
    /\ background = "none"
    /\ hook = None
    /\ task_error = ""
    /\ MRIdle
    /\ NoteIdle

SpecShell == InitShell /\ [][Next]_vars

(***************************************************************************)
(* Properties of SubmitForm.post                                           *)
(***************************************************************************)

Range(seq) == {seq[i] : i \in DOMAIN seq}

\* how often an external call was made
Count(call) == Cardinality({i \in DOMAIN calls : calls[i] = call})

\* SubmitForm.post has returned or raised
Ended == outcome.kind # "none"

Success == outcome.kind = "response" /\ outcome.status = 200

\* C1: a submission whose form id resolves to no form, or to a form without
\* OPEN, is answered with the 404 reply whatever the body is, with no call to
\* hCaptcha, no insert into db.responses and no background task.
C1_ClosedFormNotFound ==
    lookup \in {"missing", "closed"} =>
        /\ outcome = NotFound
        /\ outcome.status = 404
        /\ calls = <<"find_one">>
        /\ responses = <<>>
        /\ background = "none"

\* a form without OPEN was looked up for a body that carries answers and
\* client-made antispam and user keys
C1_Witness ==
    /\ lookup = "closed"
    /\ Ended
    /\ DOMAIN body.response = QuestionIds
    /\ body.antispam # None
    /\ body.user # None

\* C2: insert_one is called once in a run that ends with the 200 reply and
\* not at all in a run that ends any other way; no background task is
\* scheduled in a run that did not insert.
C2_InsertIffSuccess ==
    /\ Count("insert_one") = Len(responses)
    /\ Len(responses) <= 1
    /\ Ended => (IF Success THEN Count("insert_one") = 1 ELSE Count("insert_one") = 0)
    /\ (background # "none" \/ outcome.background) => Count("insert_one") = 1

\* a run ended with 403 after the anti-spam, auth, field and validation
\* stages, without an insert
C2_Witness ==
    /\ Ended
    /\ outcome.status = 403
    /\ "captcha" \in Range(calls)
    /\ responses = <<>>

\* the ids of the required questions with no key in the answers, in the order
\* of the form
MissingRequired(questions, answers) ==
    LET absent == SelectSeq(questions,
                            LAMBDA q : q.required /\ q.id \notin DOMAIN answers)
    IN [i \in DOMAIN absent |-> absent[i].id]

\* C3: once the field stage has run, if a required question has no key in
\* the submitted answers the reply is 400 missing_fields and its fields are
\* the ids of exactly those questions, each once, in the order of the form;
\* a question that is not required and has no key is not listed and gets null.
C3_MissingFields ==
    "fields" \in Range(stages) =>
        LET questions == form[1].questions
            expected == MissingRequired(questions, body.response)
        IN /\ expected # <<>> =>
                outcome = JSONResponse(400, "missing_fields", expected, <<>>, FALSE)
           /\ outcome.error = "missing_fields" => expected # <<>>
           /\ \A i, j \in DOMAIN outcome.fields :
                outcome.fields[i] = outcome.fields[j] => i = j
           /\ \A i \in DOMAIN questions :
                (~questions[i].required /\ questions[i].id \notin DOMAIN body.response) =>
                    /\ questions[i].id \notin Range(outcome.fields)
                    /\ questions[i].id \in DOMAIN response.response
                    /\ response.response[questions[i].id] = Null

\* two required questions, in the order q2, q1, are both missing
C3_Witness ==
    /\ outcome.error = "missing_fields"
    /\ outcome.fields = <<"q2", "q1">>

\* C4: an inserted response has an antispam block if and only if the form
\* does not have DISABLE_ANTISPAM, whatever the body of the request holds.
C4_AntispamIffEnabled ==
    \A i \in DOMAIN responses :
        responses[i].antispam # None <=> AntispamEnabled(form[1])

\* C5: an inserted response has a user if and only if the form requires
\* login and the request was authenticated, whatever the body of the request
\* holds.
C5_UserIffLogin ==
    \A i \in DOMAIN responses :
        responses[i].user # None <=>
            ("REQUIRES_LOGIN" \in form[1].features /\ user.is_authenticated)

\* C6: the auth stage rejects only submissions to forms that require login:
\* 400 missing_discord_data when the request is not authenticated, 400
\* email_required when it is, the claims have no email and the form has
\* COLLECT_EMAIL; no other submission is rejected by this stage.
C6_AuthGating ==
    "auth" \in Range(stages) =>
        LET f == form[1]
            login == "REQUIRES_LOGIN" \in f.features
            no_email == /\ user.is_authenticated
                        /\ "email" \notin user.payload
                        /\ "COLLECT_EMAIL" \in f.features
        IN /\ (login /\ ~user.is_authenticated) =>
                outcome = BadRequest("missing_discord_data")
           /\ (login /\ no_email) => outcome = BadRequest("email_required")
           /\ outcome.error = "missing_discord_data" =>
                (login /\ ~user.is_authenticated)
           /\ outcome.error = "email_required" => (login /\ no_email)
           /\ (~login \/ (user.is_authenticated /\ ~no_email)) =>
                (pc = "fields" \/ "fields" \in Range(stages))

\* an authenticated request without an email was rejected
C6_Witness ==
    /\ outcome = BadRequest("email_required")
    /\ user.is_authenticated

\* the results that did not pass, in their order
RECURSIVE NotPassed(_)
NotPassed(results) ==
    IF results = <<>> THEN <<>>
    ELSE IF Head(results).passed THEN NotPassed(Tail(results))
    ELSE <<Head(results)>> \o NotPassed(Tail(results))

\* C7: execute_unittest is called if and only if a question of the form has
\* unit tests and the earlier stages passed. When every result passed the
\* run goes on to the insert; otherwise the reply is failed_tests with 500 if
\* a result has return code 99 and 403 if none has, and its test_results are
\* exactly the results that did not pass.
C7_GradingGate ==
    /\ "execute_unittest" \in Range(calls) <=>
            ("grade" \in Range(stages) /\ HasUnittests(form[1]))
    /\ "grade" \in Range(stages) =>
            /\ response_obj # None
            /\ {"lookup", "auth", "fields", "validate"} \subseteq Range(stages)
    /\ Count("execute_unittest") <= 1
    /\ unittest_results # <<>> =>
         IF \A i \in DOMAIN unittest_results : unittest_results[i].passed
         THEN /\ outcome.error # "failed_tests"
              /\ (pc = "insert" \/ "insert" \in Range(stages))
         ELSE /\ outcome.kind = "response"
              /\ outcome.error = "failed_tests"
              /\ outcome.status =
                    IF \E i \in DOMAIN unittest_results :
                          unittest_results[i].return_code = 99
                    THEN 500 ELSE 403
              /\ outcome.test_results = NotPassed(unittest_results)
              /\ responses = <<>>
    /\ outcome.error = "failed_tests" => unittest_results # <<>>

\* of two results the one that passed has code 99 and the other failed with
\* code 1: the reply is 500 and reports the failed one alone
C7_Witness ==
    /\ Len(unittest_results) = 2
    /\ unittest_results[1].passed /\ unittest_results[1].return_code = 99
    /\ ~unittest_results[2].passed /\ unittest_results[2].return_code = 1
    /\ outcome.status = 500
    /\ Len(outcome.test_results) = 1

\* "insert_one" comes before "webhook_post" in the calls
InsertBeforePost ==
    \A j \in DOMAIN calls : calls[j] = "webhook_post" =>
        \E i \in 1..(j - 1) : calls[i] = "insert_one"

\* C8: a background webhook task is scheduled if and only if the form has
\* WEBHOOK_ENABLED and the submission succeeded; it is attached to the 200
\* reply, so it runs only after the insert and after the reply was produced,
\* and a form without WEBHOOK_ENABLED causes no webhook request.
C8_WebhookScheduling ==
    /\ Ended => (outcome.background <=>
                    (Success /\ "WEBHOOK_ENABLED" \in form[1].features))
    /\ background # "none" =>
            /\ Success
            /\ outcome.background
            /\ pc = "done"
            /\ Len(responses) = 1
    /\ "webhook_post" \in Range(calls) =>
            /\ "WEBHOOK_ENABLED" \in form[1].features
            /\ background \in {"sent", "failed"}
            /\ Count("webhook_post") = 1
            /\ InsertBeforePost

\* the background task of a successful submission has posted to the webhook
C8_Witness ==
    /\ Success
    /\ background = "sent"
    /\ calls[Len(calls)] = "webhook_post"

\* C12: every required question of the form has an entry that is not null in
\* the answers of every inserted response, whatever the body holds, an
\* explicit null for a required question included.
C12_RequiredAnswered ==
    \A i \in DOMAIN responses :
        \A k \in DOMAIN form[1].questions :
            LET question == form[1].questions[k] IN
            question.required =>
                /\ question.id \in DOMAIN responses[i].response
                /\ responses[i].response[question.id] # Null

\* the body without the id, form_id and timestamp the client put into it
Unforged(data) == [data EXCEPT !.id = None, !.form_id = None, !.timestamp = None]

\* C13: the id, form_id and timestamp of a response are never those of the
\* body: from the lookup on the dict has the fresh id and the id of the form,
\* its timestamp is None until FormResponse assigns it, and the dict, the
\* FormResponse and the inserted document are what they would be for the body
\* without these three keys.
C13_ShellNotFromClient ==
    form # None =>
        /\ response.id = Some("uuid4")
        /\ response.form_id = Some(form[1].id)
        /\ response.timestamp = None
        /\ pc = "antispam" => response = ResponseShell(Unforged(body), form[1])
        /\ response_obj # None =>
                /\ response_obj[1] = FormResponse(response)
                /\ response_obj[1].id = Some("uuid4")
                /\ response_obj[1].form_id = Some(form[1].id)
                /\ response_obj[1].timestamp = Some("now")
        /\ \A i \in DOMAIN responses : responses[i] = response_obj[1]

\* a response was inserted for a body with an id, a form_id and a timestamp
\* of the client's
C13_Witness ==
    /\ body.id = Some("client_id")
    /\ body.form_id = Some("client_form")
    /\ body.timestamp = Some("client_time")
    /\ Len(responses) = 1
    /\ Success

\* C14: the webhook is delivered at most once and apart from the reply: a
\* successful submission has at most one task and at most one post to the
\* webhook, a failed delivery is not tried again, and however the task ends
\* (ValueError or a failed post) the reply stays the 200 reply and the
\* inserted response stays as it was inserted.
C14_AtMostOnceIsolated ==
    /\ Count("webhook_post") <= 1
    /\ background \in {"sent", "failed"} =>
            /\ Success
            /\ pc = "done"
            /\ responses = <<response_obj[1]>>
            /\ ~ENABLED RunBackground
    /\ task_error # "" <=> background = "failed"
    /\ "webhook_post" \in Range(calls) => calls[Len(calls)] = "webhook_post"

\* the post to the webhook failed after the 200 reply and the insert
C14_Witness ==
    /\ task_error = "HTTPError"
    /\ Success
    /\ Len(responses) = 1
    /\ Count("webhook_post") = 1

\* C19: the task of a form without webhook fails at once: it ends with the
\* ValueError before it builds a message and before any request, and it is
\* run for such a form only when the form has WEBHOOK_ENABLED and no webhook.
C19_FailFast ==
    /\ task_error = "ValueError" =>
            /\ hook = None
            /\ "webhook_post" \notin Range(calls)
            /\ form[1].webhook = None
            /\ "WEBHOOK_ENABLED" \in form[1].features
            /\ Success
    /\ (background \in {"sent", "failed"} /\ form[1].webhook = None) =>
            task_error = "ValueError"
    /\ hook # None => form[1].webhook # None

\* the task of a form with WEBHOOK_ENABLED and no webhook has ended
C19_Witness ==
    /\ task_error = "ValueError"
    /\ background = "failed"
    /\ Len(responses) = 1

\* the stages in the order of the handler
StageOrder ==
    <<"lookup", "antispam", "auth", "fields", "validate", "grade", "insert", "respond">>

\* the external calls of the handler and its task in the order of the code
CallOrder == <<"find_one", "captcha", "execute_unittest", "insert_one", "webhook_post">>

\* s is t with some elements left out
RECURSIVE IsSubSeq(_, _)
IsSubSeq(s, t) ==
    IF s = <<>> THEN TRUE
    ELSE IF t = <<>> THEN FALSE
    ELSE IF Head(s) = Head(t) THEN IsSubSeq(Tail(s), Tail(t))
    ELSE IsSubSeq(s, Tail(t))

\* the latest stage that has run
LastStage == stages[Len(stages)]

\* the stage an outcome of the handler comes from
StageOf(o) ==
    IF o.kind = "exception"
    THEN (IF o.error = "execute_unittest" THEN "grade" ELSE "antispam")
    ELSE IF o.status = 404 THEN "lookup"
    ELSE IF o.error \in {"missing_discord_data", "email_required"} THEN "auth"
    ELSE IF o.error = "missing_fields" THEN "fields"
    ELSE IF o.status = 422 THEN "validate"
    ELSE IF o.error = "failed_tests" THEN "grade"
    ELSE "respond"

\* C18: the stages run one at a time in the order lookup, anti-spam, auth
\* gating, field completeness, validation, grading, insert; the outcome is that
\* of the earliest stage that fails (a request that is not authenticated to a
\* login form is answered missing_discord_data even when required answers are
\* missing); no stage runs and no external call is made after a stage failed;
\* the hCaptcha call is made before the auth stage runs.
C18_StagePrecedence ==
    /\ stages = SubSeq(StageOrder, 1, Len(stages))
    /\ IsSubSeq(calls, CallOrder)
    /\ Ended => /\ pc = "done"
                /\ LastStage = StageOf(outcome)
    /\ (~Ended /\ stages # <<>>) => pc = StageOrder[Len(stages) + 1]
    /\ "captcha" \in Range(calls) => "antispam" \in Range(stages)
    /\ "execute_unittest" \in Range(calls) => "grade" \in Range(stages)
    /\ "insert_one" \in Range(calls) => "insert" \in Range(stages)
    /\ "webhook_post" \in Range(calls) => "respond" \in Range(stages)
    /\ ("auth" \in Range(stages) /\ AntispamEnabled(form[1])) => calls[2] = "captcha"
    /\ ("auth" \in Range(stages) /\ "REQUIRES_LOGIN" \in form[1].features
            /\ ~user.is_authenticated) =>
            /\ outcome = BadRequest("missing_discord_data")
            /\ LastStage = "auth"

\* a request that is not authenticated, with a required answer missing, was
\* sent to a login form with anti-spam: the reply is that of the auth stage and
\* the hCaptcha call was made
C18_Witness ==
    /\ outcome = BadRequest("missing_discord_data")
    /\ MissingRequired(form[1].questions, body.response) # <<>>
    /\ calls = <<"find_one", "captcha">>

\* the verdict of hCaptcha is recorded and a run goes on after it
VerdictRecorded ==
    /\ ("captcha" \in Range(calls) /\ outcome.kind # "exception") =>
            /\ response.antispam # None
            /\ response.antispam[1].ip_hash = "md5(host)"
            /\ (pc = "auth" \/ "auth" \in Range(stages))
    /\ (Success /\ AntispamEnabled(form[1])) => responses[1].antispam = response.antispam

\* the original statement of C20: the verdict is recorded and only a failure
\* of the verification call ends a run at the anti-spam stage
C20_OnlyCallFailureEnds ==
    /\ VerdictRecorded
    /\ (Ended /\ LastStage = "antispam") =>
            /\ outcome.kind = "exception"
            /\ outcome.error \in {"transport_error", "http_error"}
            /\ calls[Len(calls)] = "captcha"

\* C20: the verdict of hCaptcha is recorded, not enforced: after a 2xx reply
\* the run goes on to the auth stage whatever the verdict, and a run that
\* passes the later stages inserts the response with the verdict and ends with
\* 200. A run ends at the anti-spam stage only with an exception: the KeyError
\* of a request without User-Agent header, raised before the call, or the
\* transport failure or non-2xx status of the call.
C20_VerdictRecorded ==
    /\ VerdictRecorded
    /\ (Ended /\ LastStage = "antispam") =>
            /\ outcome.kind = "exception"
            /\ outcome.error \in {"KeyError", "transport_error", "http_error"}
            /\ outcome.error = "KeyError" <=> "captcha" \notin Range(calls)

\* a response whose captcha did not pass was inserted and answered with 200
C20_Witness ==
    /\ Success
    /\ responses[1].antispam # None
    /\ responses[1].antispam[1].ip_hash = "md5(host)"
    /\ ~responses[1].antispam[1].captcha_pass

(***************************************************************************)
(* Properties of make_request                                              *)
(***************************************************************************)

\* make_request has returned or raised
MREnded == result.kind # "none"

\* the number of 429 responses received
RateLimitedCount ==
    Cardinality({i \in DOMAIN received : received[i].status_code = RateLimited})

\* C9: when the server answers 429 to the first n requests of a call and
\* another status to the next, the call sends n + 1 requests, all equal to
\* the first, sleeps before each resend for the reset-after value of the 429
\* just received, and ends with the outcome of the last response; it never
\* ends while the latest response is a 429.
C9_RateLimitRetry ==
    MREnded =>
        /\ received # <<>>
        /\ received[Len(received)].status_code # RateLimited
        /\ Len(sent) = RateLimitedCount + 1
        /\ \A i \in DOMAIN sent : sent[i] = sent[1]
        /\ slept = [i \in 1..RateLimitedCount |-> received[i].retry_after]
        /\ result = RaiseForStatus(received[Len(received)])

\* C10: make_request returns no response whose status is not 2xx: a status
\* that is neither 429 nor 2xx is raised as an error that carries the
\* response, and no status but 429 is followed by another request.
C10_ErrorsRaised ==
    /\ result.kind = "returned" =>
            /\ result.response = resp
            /\ resp[1].status_code \in 200..299
    /\ (MREnded /\ resp # None /\ resp[1].status_code \notin 200..299
            /\ resp[1].status_code # RateLimited) =>
            result = [kind |-> "raised", error |-> "HTTPStatusError", response |-> resp]
    /\ (mr_pc = "done" /\ resp # None /\ resp[1].status_code # RateLimited) => MREnded
    /\ Len(sent) = Len(received)
    /\ \A i \in DOMAIN received :
            i < Len(sent) => received[i].status_code = RateLimited

\* a 403 was raised with its response after a single request
C10_Witness ==
    /\ result.kind = "raised"
    /\ result.error = "HTTPStatusError"
    /\ result.response[1].status_code = 403
    /\ Len(sent) = 1

\* the original statement of C15: every request carries the default
\* Authorization header, whatever headers the caller passes
C15_DefaultAuthorization ==
    \A i \in DOMAIN sent :
        /\ "Authorization" \in DOMAIN sent[i].headers
        /\ sent[i].headers["Authorization"] = DISCORD_HEADERS["Authorization"]

\* C15: every request of make_request carries an Authorization header and
\* every header of the caller: the headers are the defaults updated with the
\* caller's, so the Authorization is the caller's when the caller passes one
\* (fetch_user_details passes its Bearer token) and the default Bot token
\* otherwise; a caller cannot make a request go out without Authorization.
C15_HeadersMerged ==
    \A i \in DOMAIN sent :
        LET h == sent[i].headers
            own == IF args.headers = None THEN <<>> ELSE args.headers[1]
        IN /\ DOMAIN h = DOMAIN DISCORD_HEADERS \cup DOMAIN own
           /\ \A k \in DOMAIN own : h[k] = own[k]
           /\ \A k \in DOMAIN DISCORD_HEADERS \ DOMAIN own : h[k] = DISCORD_HEADERS[k]

\* a request went out with the caller's Authorization in place of the default
C15_Witness ==
    /\ sent # <<>>
    /\ args.headers = Some("Authorization" :> "Bearer token")
    /\ sent[1].headers = ("Authorization" :> "Bearer token")

(***************************************************************************)
(* Properties of the functions of discord.py                               *)
(***************************************************************************)

\* the requests sent by the post of the direct message
MessageRequests ==
    IF note_pc = "message_wait" THEN sent
    ELSE IF Len(note_calls) = 2 THEN note_calls[2].sent
    ELSE <<>>

\* a result of make_request is an HTTPStatusError with this status
StatusError(res, code) ==
    /\ res.kind = "raised"
    /\ res.error = "HTTPStatusError"
    /\ res.response[1].status_code = code

\* C11: in send_direct_message, when opening the channel fails with 400 or
\* gives no channel id the function returns without an error and posts no
\* message; when the post of the message fails with 403 it returns without an
\* error; any other error of either call leaves the function as that error;
\* the message is posted at most once and only to a channel that was obtained.
C11_DirectMessage ==
    note_args.fn = "dm" =>
        /\ Len(MessageRequests) <= 1
        /\ Len(note_calls) <= 2
        /\ MessageRequests # <<>> =>
                /\ channel # None
                /\ note_calls[1].result.kind = "returned"
                /\ JsonId(note_calls[1].result.response[1].text) = channel
                /\ MessageRequests[1].url = <<API_BASE_URL, MessagesUrl(channel[1])>>
        /\ note_pc = "done" =>
                LET first == note_calls[1].result IN
                IF StatusError(first, 400)
                        \/ (first.kind = "returned" /\ first.response[1].text = "{}")
                THEN /\ note_result = ReturnedNone
                     /\ Len(note_calls) = 1
                     /\ MessageRequests = <<>>
                ELSE IF first.kind = "raised"
                THEN /\ note_result = first
                     /\ Len(note_calls) = 1
                     /\ MessageRequests = <<>>
                ELSE /\ Len(note_calls) = 2
                     /\ LET second == note_calls[2].result IN
                        IF second.kind = "returned" \/ StatusError(second, 403)
                        THEN note_result = ReturnedNone
                        ELSE /\ note_result = second
                             /\ note_result.kind = "raised"

\* the channel was opened, the post of the message was answered with 403 and
\* send_direct_message returned
C11_Witness ==
    /\ note_args.fn = "dm"
    /\ note_pc = "done"
    /\ Len(note_calls) = 2
    /\ StatusError(note_calls[2].result, 403)
    /\ note_result = ReturnedNone

\* the message with every placeholder of the template replaced by the value
\* of its key, in one pass over the template: text that was put in is not
\* looked at again
RECURSIVE SinglePass(_, _)
SinglePass(ctx, str) ==
    IF str = <<>> THEN <<>>
    ELSE LET hits == {i \in DOMAIN ctx :
                        /\ Len(str) >= 3
                        /\ SubSeq(str, 1, 3) = Placeholder(ctx[i].key)}
         IN IF hits # {}
            THEN ctx[CHOOSE i \in hits : TRUE].val
                    \o SinglePass(ctx, SubSeq(str, 4, Len(str)))
            ELSE <<Head(str)>> \o SinglePass(ctx, Tail(str))

\* the template format_message was called with
NoteTemplate ==
    IF note_args.fn = "dm" THEN note_args.form.dm_message
    ELSE note_args.form.webhook[1].message[1]

\* C16: format_message replaces in one pass and not again in what it put in:
\* the value of a key that holds the placeholder of another key (a form name
\* "{form_id}") is in the message as it is.
C16_SinglePass ==
    formatted # None =>
        formatted[1] = SinglePass(BuildCtxVariables(note_args.form, note_args.response,
                                                    note_args.user),
                                  NoteTemplate)

\* C17: the description of a webhook message is the mention of the acting
\* user when there is one and "User" otherwise, then the fixed text with the
\* name of the form, in the hook of discord.send_submission_webhook and in
\* that of SubmitForm.send_submission_webhook.
C17_DescriptionMention ==
    /\ note_hook # None =>
            note_hook[1].description =
                (IF note_args.user.discord_mention # None
                 THEN note_args.user.discord_mention[1] ELSE <<"User">>)
                \o <<" submitted a response to ", Backquote>> \o note_args.form.name
                \o <<Backquote, ".">>
    /\ hook # None =>
            hook[1].description =
                (IF user.discord_mention # None
                 THEN user.discord_mention[1] ELSE <<"User">>)
                \o <<" submitted a response to ", Backquote>> \o form[1].name
                \o <<Backquote, ".">>

====
